---- MODULE Spec2Model ----
(***************************************************************************)
(* AbbyyPdfToDocx: one invocation of the tool's _call, in its two          *)
(* revisions.                                                              *)
(*   rev "A" : src/api/app/clients/tools/structured/AbbyyPdfToDocx.js      *)
(*             (XML responses, result downloaded and returned as base64)   *)
(*   rev "B" : src/unnamed/part_000                                        *)
(*             (JSON responses, result URL returned, signed-URL refresh)   *)
(*                                                                         *)
(* An optional JavaScript value is a sequence of length at most one:       *)
(* <<>> is undefined/null, <<v>> is the value v.  Every optional value of  *)
(* the model is truthy when present, except the number 0.                  *)
(* Times are counted in half-milliseconds, so that the fourth poll delay   *)
(* (5062.5 ms) is an integer.                                              *)
(***************************************************************************)
EXTENDS Integers, Sequences, FiniteSets, TLC

VARIABLES
    rev,        \* which revision of the tool runs
    APP_ID,     \* process.env.ABBYY_APP_ID is set (non-empty)
    APP_PWD,    \* process.env.ABBYY_APP_PWD is set (non-empty)
    userId,     \* this.userId
    input,      \* the argument of _call
    payload,    \* let payload
    registry,   \* the file registry as the getFiles call of this invocation saw it
    files,      \* const files (the result of getFiles), until the source is validated
    task,       \* let task
    response,   \* the data of the last answer of the OCR service
    started,    \* const start = Date.now() has run
    elapsed,    \* Date.now() - start
    timeoutMs,  \* const timeoutMs
    delay,      \* let delay
    result,     \* the value _call returns
    outcome,    \* how the invocation ended
    pc,         \* position in _call
    nRegistry,  \* history: calls to the host file registry
    nFetch,     \* history: downloads of the source document
    nSubmit,    \* history: job submissions (startProcess)
    nQuery,     \* history: status queries (getStatus)
    nNonTerm,   \* history: non-terminal statuses the poll loop went to sleep on
    sleeps      \* history: the delays slept, in order

vars == <<rev, APP_ID, APP_PWD, userId, input, payload, registry, files, task,
          response, started, elapsed, timeoutMs, delay, result, outcome, pc,
          nRegistry, nFetch, nSubmit, nQuery, nNonTerm, sleeps>>

----------------------------------------------------------------------------
(* Bounds of the model *)

\* status queries after which the next sleep outlasts every timeout
MaxPolls == 6
\* records in the file registry
MaxFiles == 2
\* last-updated timestamps are 1..MaxStamp
MaxStamp == 2

----------------------------------------------------------------------------
(* Values *)

Has(x) == x # <<>>
Val(x) == x[1]

\* n milliseconds, in half-milliseconds
Ms(n) == 2 * n

Revisions == {"A", "B"}

\* String.prototype.toLowerCase on the names of the model
Lower(s) == IF s = "A.PDF" THEN "a.pdf" ELSE s

\* String.prototype.endsWith('.docx') on the names of the model
EndsWithDocx(s) == s = "out.docx"

\* A path or URL is the sequence of its segments.
ExplicitUrl  == <<"https:", "host", "in.pdf">>
ExplicitPath == <<"data", "in.pdf">>
StoredPaths  == { <<"uploads", "u1", "a.pdf">>,
                  <<"https:", "cdn", "uploads", "u1", "b.pdf">> }

Users == {"u1", "u2"}
StoredNames == {"a.pdf", "A.PDF"}
HintNames == {"A.PDF", "out.docx"}
RequestTimeouts == {0, Ms(1500)}

EmptyPayload ==
    [base64 |-> <<>>, fileUrl |-> <<>>, filePath |-> <<>>, file_id |-> <<>>,
     filename |-> <<>>, timeoutMs |-> <<>>]

Payloads ==
    [base64   : {<<>>, <<"JVBERi0">>},
     fileUrl  : {<<>>, <<ExplicitUrl>>},
     filePath : {<<>>, <<ExplicitPath>>},
     file_id  : {<<>>, <<"f1">>},
     filename : {<<>>} \cup {<<n>> : n \in HintNames},
     timeoutMs: {<<>>} \cup {<<t>> : t \in RequestTimeouts}]

\* The objects a JSON text of the model encodes.
JsonPayloads ==
    {p \in Payloads : p.base64 = <<>> /\ p.filePath = <<>> /\ p.file_id = <<>>
                      /\ p.timeoutMs = <<>> /\ p.filename # <<"out.docx">>}

\* The arguments of _call: a structured object; a JSON text of an object; a
\* JSON text of a value that is no object ("5", "null"); a string that is no
\* JSON; nothing.
Inputs ==
    {[shape |-> "object", obj |-> p, str |-> ""] : p \in Payloads}
    \cup {[shape |-> "json", obj |-> p, str |-> ""] : p \in JsonPayloads}
    \cup {[shape |-> "json_scalar", obj |-> EmptyPayload, str |-> "5"]}
    \cup {[shape |-> "bare", obj |-> EmptyPayload, str |-> n] : n \in HintNames}
    \cup {[shape |-> "empty", obj |-> EmptyPayload, str |-> ""]}

\* The records of the host's file registry: the caller's PDFs in every
\* variety, and records of another owner or another type.
FileRecords ==
    {r \in [user : Users, pdf : BOOLEAN,
            filepath : {<<>>} \cup {<<p>> : p \in StoredPaths},
            filename : StoredNames, updatedAt : 1..MaxStamp] :
        \/ r.user = "u1" /\ r.pdf
        \/ r.filepath = <<(<<"uploads", "u1", "a.pdf">>)>> /\ r.filename = "a.pdf"}

\* the subsets of S of at most k elements
RECURSIVE SubsetsUpTo(_, _)
SubsetsUpTo(S, k) ==
    IF k = 0 THEN {{}}
    ELSE LET P == SubsetsUpTo(S, k - 1)
         IN  P \cup {R \cup {x} : R \in P, x \in S}

Registries == SubsetsUpTo(FileRecords, MaxFiles)

Statuses == {"absent", "Submitted", "Completed", "ProcessingFailed"}
ResultRefs == {"absent", "empty", "r1"}

\* An answer without a task (rev A: no response.task element; rev B: a null body)
NoTask == [task |-> FALSE, id |-> FALSE, status |-> "absent", res |-> "absent"]

\* The answers of the OCR service: the job identifier present or not, the
\* status field, and the result reference (absent; present and empty: an
\* empty resultUrl attribute, an empty resultUrls array; or a URL).
Responses ==
    {NoTask} \cup [task : {TRUE}, id : BOOLEAN, status : Statuses, res : ResultRefs]

----------------------------------------------------------------------------
(* _call, lines 87-103 (A) / 125-142 (B): credentials and normalisation *)

\* mutant: the test fails only when both credentials are absent
CredentialsMissingBoth == ~APP_ID /\ ~APP_PWD

CredentialsMissing == ~APP_ID \/ ~APP_PWD

Normalize(in) ==
    CASE in.shape = "object"      -> in.obj
      [] in.shape = "json"        -> in.obj
      [] in.shape = "json_scalar" -> EmptyPayload
      [] in.shape = "bare"        -> [EmptyPayload EXCEPT !.filename = <<in.str>>]
      [] OTHER                    -> EmptyPayload


----------------------------------------------------------------------------
(* Source resolution *)

\* line 106 (A): a file_id and no other source
WantsFileId(p) ==
    Has(p.file_id) /\ ~Has(p.fileUrl) /\ ~Has(p.filePath) /\ ~Has(p.base64)

\* const hasSource, line 119 (A); the test of line 144 (B)
HasSource(rv, p) ==
    IF rv = "A" THEN Has(p.base64) \/ Has(p.fileUrl) \/ Has(p.filePath)
                ELSE Has(p.base64) \/ Has(p.fileUrl)

\* the filter handed to getFiles: lines 121-128 (A), line 148 (B)
FileFilter(rv, uid, p) ==
    IF rv = "A"
    THEN [user |-> uid, pdf |-> TRUE, nameHint |-> p.filename, needPath |-> FALSE]
    ELSE [user |-> uid, pdf |-> TRUE, nameHint |-> <<>>, needPath |-> TRUE]

\* new RegExp(escaped nameHint, 'i') tested against a stored path: the hint
\* occurs in the path, whatever the case.  The names of the model hold no
\* separator, so a name occurs in a path exactly when it is one of its segments.
PathMatches(fp, hint) ==
    Has(fp) /\ \E i \in 1..Len(Val(fp)) : Lower(Val(fp)[i]) = Lower(hint)

\* a record the registry's query selects
Matches(r, f) ==
    /\ r.user = f.user
    /\ f.pdf => r.pdf
    /\ f.needPath => Has(r.filepath)
    /\ Has(f.nameHint) =>
          (r.filename = Val(f.nameHint) \/ PathMatches(r.filepath, Val(f.nameHint)))

\* getFiles(filter, { updatedAt: -1 }): the selected records, latest first;
\* records of one timestamp come in any order.
getFiles(reg, f) ==
    LET M == {r \in reg : Matches(r, f)}
        n == Cardinality(M)
    IN  {s \in [1..n -> M] :
            /\ \A i, j \in 1..n : i # j => s[i] # s[j]
            /\ \A i, j \in 1..n : i < j => s[i].updatedAt >= s[j].updatedAt}

\* mutant: the oldest of the selected records
LatestOldest(fs) == IF Len(fs) = 0 THEN <<>> ELSE <<fs[Len(fs)]>>

\* const latest = files?.[0], line 131 (A) / 153 (B)
Latest(fs) == IF Len(fs) = 0 THEN <<>> ELSE <<fs[1]>>

\* getFreshSignedURL, lines 47-65 (B): the object key of the stored file
ObjectKey(fp, uid, name) ==
    LET path == Val(fp)
        \* new URL(originalFilepath) parses absolute URLs only; the pathname
        \* starts after the host
        hits == IF Has(fp) /\ Len(path) >= 2 /\ path[1] = "https:"
                THEN {i \in 3..(Len(path) - 1) :
                         path[i] = "uploads" /\ path[i + 1] = uid}
                ELSE {}
        first == CHOOSE i \in hits : \A j \in hits : i <= j
        fromUrl == IF hits = {} THEN <<>> ELSE SubSeq(path, first + 2, Len(path))
    IN  IF fromUrl # <<>> THEN fromUrl ELSE <<uid, name>>

\* getFileURL({ fileName: objectKey, basePath: 'uploads', userId })
SignedUrl(key) == <<"https:", "signed", "uploads">> \o key

\* getFreshSignedURL, lines 32-75 (B): null (no req.config, no getFileURL in
\* the storage strategy, an exception, a null URL) or the signed URL
FreshSignedURLs(fp, uid, name) ==
    {<<>>, <<SignedUrl(ObjectKey(fp, uid, name))>>}

\* mutant: an output filename passes for a source
MissingSourceButName(rv, p) ==
    ~Has(p.base64) /\ ~Has(p.fileUrl) /\ ~Has(p.filePath) /\ ~Has(p.filename)

\* the test of line 142 (A) / 171 (B)
MissingSource(rv, p) ==
    IF rv = "A" THEN ~Has(p.base64) /\ ~Has(p.fileUrl) /\ ~Has(p.filePath)
                ELSE ~Has(p.base64) /\ ~Has(p.fileUrl)

\* if (!payload.filename) payload.filename = name
WithName(p, name) == IF Has(p.filename) THEN p ELSE [p EXCEPT !.filename = <<name>>]


----------------------------------------------------------------------------
(* The OCR job and the poll loop *)

\* parseTask, lines 59-65 (A) / 101-105 (B): the answer holds a task with an id
ParseOk(r) == r.task /\ r.id

\* let delay = 1500
InitialDelay == Ms(1500)
\* the ceiling of Math.min(delay * 1.5, 7000)
MaxDelay == Ms(7000)
\* 6 * 60 * 1000 (A)
DefaultTimeoutA == Ms(6 * 60 * 1000)
\* 60 * 60 * 1000 (B)
DefaultTimeoutB == Ms(60 * 60 * 1000)

\* a wait that outlasts every timeout of the model
Stall == DefaultTimeoutB + 1

\* const timeoutMs, line 156 (A) / 185 (B)
TimeoutOf(rv, p) ==
    IF rv = "A"
    THEN IF Has(p.timeoutMs) /\ Val(p.timeoutMs) # 0
         THEN Val(p.timeoutMs) ELSE DefaultTimeoutA
    ELSE DefaultTimeoutB

\* mutant: no ceiling
NextDelayNoCeiling(d) == (3 * d) \div 2

\* delay = Math.min(delay * 1.5, 7000); exact, for 3 * d is even below the ceiling
NextDelay(d) == IF 3 * d >= 2 * MaxDelay THEN MaxDelay ELSE (3 * d) \div 2

\* Date.now() - start > timeoutMs
Expired(el, tmo) == el > tmo

\* task.resultUrl (A), task.resultUrls[0] (B) is truthy
HasResult(t) == t.res \notin {"absent", "empty"}

\* mutant: the timeout is tested before the failure
LoopDecisionTimeoutFirst(rv, t, el, tmo) ==
    CASE rv = "B" /\ ~t.task                                       -> "type_error"
      [] rv = "B" /\ t.status = "Completed" /\ t.res = "absent"    -> "type_error"
      [] t.status = "Completed" /\ HasResult(t)                    -> "break"
      [] Expired(el, tmo)                                          -> "timeout"
      [] t.status = "ProcessingFailed"                             -> "failed"
      [] OTHER                                                     -> "sleep"

\* One pass over lines 159-161 (A) / 188-190 (B).  In B the status is read off
\* a task that may be null, and resultUrls[0] off an array that may be missing:
\* both throw a TypeError.
LoopDecision(rv, t, el, tmo) ==
    CASE rv = "B" /\ ~t.task                                       -> "type_error"
      [] rv = "B" /\ t.status = "Completed" /\ t.res = "absent"    -> "type_error"
      [] t.status = "Completed" /\ HasResult(t)                    -> "break"
      [] t.status = "ProcessingFailed"                             -> "failed"
      [] Expired(el, tmo)                                          -> "timeout"
      [] OTHER                                                     -> "sleep"

\* mutant: the job is submitted again after the sleep
AfterSleepResubmit == "submit"

\* what follows the sleep of line 162 (A) / 191 (B): the status query
AfterSleep == "query"

\* const filename, lines 148-149 (A) / 177-178 (B)
OutputName(p) ==
    IF Has(p.filename) /\ EndsWithDocx(Val(p.filename))
    THEN Val(p.filename) ELSE "converted.docx"

----------------------------------------------------------------------------
(* The state machine *)

envVars    == <<rev, APP_ID, APP_PWD, userId, input>>
lookupVars == <<registry, files>>
pollVars   == <<task, response, started, elapsed, timeoutMs, delay>>
callVars   == <<nRegistry, nFetch, nSubmit, nQuery, nNonTerm, sleeps>>

Init ==
    /\ rev \in Revisions
    /\ APP_ID \in BOOLEAN
    /\ APP_PWD \in BOOLEAN
    /\ userId \in {<<>>, <<"u1">>}
    /\ input \in Inputs
    /\ payload = EmptyPayload
    /\ registry = {}
    /\ files = <<>>
    /\ task = NoTask
    /\ response = NoTask
    /\ started = FALSE
    /\ elapsed = 0
    /\ timeoutMs = 0
    /\ delay = 0
    /\ result = <<>>
    /\ outcome = "none"
    /\ pc = "start"
    /\ nRegistry = 0
    /\ nFetch = 0
    /\ nSubmit = 0
    /\ nQuery = 0
    /\ nNonTerm = 0
    /\ sleeps = <<>>

\* throw new Error(...): the invocation ends
Throw(err) == pc' = "done" /\ outcome' = err

\* lines 88-89 (A) / 126-127 (B)
FailCredentials ==
    /\ pc = "start"
    /\ CredentialsMissing
    /\ Throw("config_error")
    /\ UNCHANGED <<envVars, payload, lookupVars, pollVars, result, callVars>>

\* lines 92-103 (A) / 131-142 (B)
NormalizePayload ==
    /\ pc = "start"
    /\ ~CredentialsMissing
    /\ payload' = Normalize(input)
    /\ pc' = IF rev = "A" THEN "fileId" ELSE "lookup"
    /\ UNCHANGED <<envVars, lookupVars, pollVars, result, outcome, callVars>>

\* lines 106-116 (A): findFileById answers a record or null, or throws
ResolveFileId ==
    /\ pc = "fileId"
    /\ IF WantsFileId(payload)
       THEN /\ nRegistry' = nRegistry + 1
            /\ \E f \in {<<>>} \cup {<<r>> : r \in FileRecords} :
                 payload' = IF Has(f) /\ Has(Val(f).filepath)
                            THEN WithName([payload EXCEPT !.fileUrl = Val(f).filepath],
                                          Val(f).filename)
                            ELSE payload
       ELSE UNCHANGED <<payload, nRegistry>>
    /\ pc' = "lookup"
    /\ UNCHANGED <<envVars, lookupVars, pollVars, result, outcome,
                   nFetch, nSubmit, nQuery, nNonTerm, sleeps>>

\* lines 119-130 (A) / 144-151 (B): getFiles answers or throws (and the
\* exception is swallowed)
LookupLatest ==
    /\ pc = "lookup"
    /\ IF ~HasSource(rev, payload) /\ Has(userId)
       THEN /\ nRegistry' = nRegistry + 1
            /\ \/ \E reg \in Registries :
                    \E fs \in getFiles(reg, FileFilter(rev, Val(userId), payload)) :
                       /\ registry' = reg
                       /\ files' = fs
                       /\ pc' = "gotFiles"
               \/ /\ pc' = "validate"
                  /\ UNCHANGED lookupVars
       ELSE /\ pc' = "validate"
            /\ UNCHANGED <<lookupVars, nRegistry>>
    /\ UNCHANGED <<envVars, payload, pollVars, result, outcome,
                   nFetch, nSubmit, nQuery, nNonTerm, sleeps>>

\* lines 131-135 (A) / 153-164 (B)
UseLatest ==
    /\ pc = "gotFiles"
    /\ LET latest == Latest(files)
       IN  IF Has(latest) /\ Has(Val(latest).filepath)
           THEN \E fresh \in IF rev = "A" THEN {<<>>}
                             ELSE FreshSignedURLs(Val(latest).filepath, Val(userId),
                                                  Val(latest).filename) :
                  payload' = WithName(
                      [payload EXCEPT !.fileUrl = IF Has(fresh) THEN fresh
                                                  ELSE Val(latest).filepath],
                      Val(latest).filename)
           ELSE payload' = payload
    /\ pc' = "validate"
    /\ UNCHANGED <<envVars, lookupVars, pollVars, result, outcome, callVars>>

\* lines 142-144 (A) / 171-173 (B)
Validate ==
    /\ pc = "validate"
    /\ IF MissingSource(rev, payload)
       THEN Throw("input_error")
       ELSE pc' = "fetch" /\ outcome' = outcome
    /\ registry' = {}
    /\ files' = <<>>
    /\ UNCHANGED <<envVars, payload, pollVars, result, callVars>>

\* resolvePdfBytes, lines 15-34 (A) / 19-30 (B): the download, or the read of
\* the local file, succeeds or throws
ResolveBytes ==
    /\ pc = "fetch"
    /\ CASE Has(payload.base64) ->
              /\ pc' = "submit" /\ outcome' = outcome
              /\ nFetch' = nFetch
         [] ~Has(payload.base64) /\ Has(payload.fileUrl) ->
              /\ nFetch' = nFetch + 1
              /\ \/ pc' = "submit" /\ outcome' = outcome
                 \/ Throw("fetch_error")
         [] ~Has(payload.base64) /\ ~Has(payload.fileUrl)
               /\ rev = "A" /\ Has(payload.filePath) ->
              /\ nFetch' = nFetch
              /\ \/ pc' = "submit" /\ outcome' = outcome
                 \/ Throw("fetch_error")
         [] OTHER ->
              /\ Throw("no_pdf_bytes")
              /\ nFetch' = nFetch
    /\ UNCHANGED <<envVars, payload, lookupVars, pollVars, result,
                   nRegistry, nSubmit, nQuery, nNonTerm, sleeps>>

\* lines 151-157 (A) / 180-186 (B): startProcess answers or throws; parseTask;
\* the clock of the poll loop starts
StartProcess ==
    /\ pc = "submit"
    /\ nSubmit' = nSubmit + 1
    /\ \/ /\ Throw("http_error")
          /\ UNCHANGED pollVars
       \/ \E r \in Responses :
            /\ response' = r
            /\ IF ParseOk(r)
               THEN /\ task' = r
                    /\ started' = TRUE
                    /\ elapsed' = 0
                    /\ timeoutMs' = TimeoutOf(rev, payload)
                    /\ delay' = InitialDelay
                    /\ pc' = "loop" /\ outcome' = outcome
               ELSE /\ Throw("protocol_error")
                    /\ UNCHANGED <<task, started, elapsed, timeoutMs, delay>>
    /\ UNCHANGED <<envVars, payload, lookupVars, result,
                   nRegistry, nFetch, nQuery, nNonTerm, sleeps>>

\* lines 159-161 (A) / 188-190 (B)
LoopCheck ==
    /\ pc = "loop"
    /\ LET d == LoopDecision(rev, task, elapsed, timeoutMs)
       IN  CASE d = "break"      -> pc' = "completed" /\ outcome' = outcome
                                    /\ nNonTerm' = nNonTerm
             [] d = "failed"     -> Throw("processing_failed") /\ nNonTerm' = nNonTerm
             [] d = "timeout"    -> Throw("timeout") /\ nNonTerm' = nNonTerm
             [] d = "type_error" -> Throw("type_error") /\ nNonTerm' = nNonTerm
             [] OTHER            -> pc' = "sleep" /\ outcome' = outcome
                                    /\ nNonTerm' = nNonTerm + 1
    /\ UNCHANGED <<envVars, payload, lookupVars, pollVars, result,
                   nRegistry, nFetch, nSubmit, nQuery, sleeps>>

\* line 162 (A) / 191 (B): the timer fires after delay; once MaxPolls status
\* queries are made the process is held up past every timeout
Sleep ==
    /\ pc = "sleep"
    /\ sleeps' = Append(sleeps, delay)
    /\ elapsed' = elapsed + delay + (IF nQuery >= MaxPolls THEN Stall ELSE 0)
    /\ pc' = AfterSleep
    /\ UNCHANGED <<envVars, payload, lookupVars, task, response, started, timeoutMs,
                   delay, result, outcome, nRegistry, nFetch, nQuery, nSubmit, nNonTerm>>

\* lines 163-165 (A) / 192-194 (B): getStatus answers, at once or late, or
\* throws; A parses the answer, B takes it as it is
GetStatus ==
    /\ pc = "query"
    /\ nQuery' = nQuery + 1
    /\ \/ /\ Throw("http_error")
          /\ UNCHANGED pollVars
       \/ \E r \in Responses, late \in {0, Stall} :
            /\ response' = r
            /\ elapsed' = elapsed + late
            /\ IF rev = "A" /\ ~ParseOk(r)
               THEN /\ Throw("protocol_error")
                    /\ UNCHANGED <<task, delay>>
               ELSE /\ task' = r
                    /\ delay' = NextDelay(delay)
                    /\ pc' = "loop" /\ outcome' = outcome
            /\ UNCHANGED <<started, timeoutMs>>
    /\ UNCHANGED <<envVars, payload, lookupVars, result,
                   nRegistry, nFetch, nSubmit, nNonTerm, sleeps>>

\* lines 168-173 (A): downloadResult answers or throws; lines 196-200 (B)
Finish ==
    /\ pc = "completed"
    /\ \/ /\ result' = <<[filename |-> OutputName(payload), ref |-> task.res,
                         as |-> IF rev = "A" THEN "base64" ELSE "fileUrl"]>>
          /\ Throw("success")
       \/ /\ rev = "A"
          /\ Throw("download_error")
          /\ result' = result
    /\ UNCHANGED <<envVars, payload, lookupVars, pollVars, callVars>>

Next ==
    \/ FailCredentials
    \/ NormalizePayload
    \/ ResolveFileId
    \/ LookupLatest
    \/ UseLatest
    \/ Validate
    \/ ResolveBytes
    \/ StartProcess
    \/ LoopCheck
    \/ Sleep
    \/ GetStatus
    \/ Finish

Spec == Init /\ [][Next]_vars


----------------------------------------------------------------------------
(* Properties *)

RECURSIVE Pow(_, _)
Pow(b, e) == IF e = 0 THEN 1 ELSE b * Pow(b, e - 1)

\* min(1500 ms * 1.5^(k-1), 7000 ms), in half-milliseconds
ExpectedDelay(k) ==
    LET num == 3000 * Pow(3, k - 1)
        den == Pow(2, k - 1)
    IN  IF num >= 14000 * den THEN 14000 ELSE num \div den

\* an answer that holds a job identifier and a status
WellFormed(r) == r.task /\ r.id /\ r.status # "absent"

\* C1: when the status the poll loop looks at is ProcessingFailed, the very
\* next step ends the invocation with the processing-failure error, without a
\* sleep and without a status query; and an ended invocation does nothing more.
C1_FailedEndsAtOnce ==
    [][ /\ (pc = "loop" /\ task.status = "ProcessingFailed")
            => /\ pc' = "done"
               /\ outcome' = "processing_failed"
               /\ nQuery' = nQuery
               /\ sleeps' = sleeps
        /\ pc = "done" => UNCHANGED vars ]_vars

\* C1 witness: a status query answered ProcessingFailed ended the invocation
C1_Witness ==
    /\ pc = "done" /\ outcome = "processing_failed"
    /\ nQuery >= 1 /\ task.status = "ProcessingFailed"

\* C2 (as claimed): an invocation that reached the poll loop and whose last
\* answer was a well-formed non-terminal status (not Completed with a result
\* reference, not ProcessingFailed) can only have ended with the timeout error.
C2_OnlyTimeoutEndsNonTerminal ==
    ( /\ pc = "done" /\ started
      /\ outcome # "http_error"
      /\ WellFormed(response)
      /\ response.status # "ProcessingFailed"
      /\ ~(response.status = "Completed" /\ HasResult(response)) )
    => outcome = "timeout"

\* C3: the delays slept are 1500 ms, then 1.5 times the one before, never above
\* 7000 ms, and never decrease; there is one status query per non-terminal
\* status the loop saw, and a success follows a Completed answer with a result
\* reference with no query after it.
C3_QueriesAndDelays ==
    /\ \A i \in 1..Len(sleeps) :
          /\ sleeps[i] = ExpectedDelay(i)
          /\ sleeps[i] <= 14000
          /\ i > 1 => sleeps[i - 1] <= sleeps[i]
    /\ nQuery <= nNonTerm /\ nNonTerm <= nQuery + 1
    /\ outcome = "success" =>
          /\ nQuery = nNonTerm
          /\ nQuery = Len(sleeps)
          /\ task = response
          /\ task.status = "Completed" /\ HasResult(task)

\* C3 witness: MaxPolls Submitted answers, then Completed, within the timeout
C3_Witness ==
    /\ outcome = "success" /\ nQuery = MaxPolls /\ elapsed <= timeoutMs
    /\ sleeps[Len(sleeps)] = 14000

\* the argument names a content source
InputCarriesSource(in) ==
    /\ in.shape \in {"object", "json"}
    /\ \/ Has(in.obj.base64) \/ Has(in.obj.fileUrl)
       \/ Has(in.obj.filePath) \/ Has(in.obj.file_id)

\* C4: with both credentials, no caller identity and an argument that names no
\* content source, the invocation never leaves source resolution, never submits
\* a job, and ends only with the input error.
C4_NoSourceNoCaller ==
    (APP_ID /\ APP_PWD /\ ~Has(userId) /\ ~InputCarriesSource(input))
    => /\ nSubmit = 0 /\ nFetch = 0
       /\ pc \in {"start", "fileId", "lookup", "validate", "done"}
       /\ pc = "done" => outcome = "input_error"

\* C4 witness: a bare string, no caller: the input error
C4_Witness ==
    /\ pc = "done" /\ outcome = "input_error"
    /\ ~Has(userId) /\ input.shape = "bare" /\ nSubmit = 0

\* C5: with a credential absent the invocation ends with the configuration
\* error as its first step, and no registry lookup, source download, job
\* submission or status query is ever made.
C5_NoCredentials ==
    (~APP_ID \/ ~APP_PWD)
    => /\ pc \in {"start", "done"}
       /\ pc = "done" => outcome = "config_error"
       /\ nRegistry = 0 /\ nFetch = 0 /\ nSubmit = 0 /\ nQuery = 0

\* C5 witness: only the password is absent; the caller and a source are given
C5_Witness ==
    /\ pc = "done" /\ outcome = "config_error"
    /\ APP_ID /\ ~APP_PWD /\ Has(userId) /\ InputCarriesSource(input)

\* C6 (as claimed): the invocation goes on (to the poll loop, a sleep, a status
\* query or the result) only after an answer that holds both a job identifier
\* and a status; any other answer ends it with the protocol error.
C6_MalformedAnswerEnds ==
    /\ pc \in {"loop", "sleep", "query", "completed"} => WellFormed(response)
    /\ (pc = "done" /\ nSubmit = 1 /\ outcome \notin {"http_error", "protocol_error"})
          => WellFormed(response)

\* C7 (as claimed): with timeoutMs = T > 0 in the request, the timeout error
\* is raised only when the elapsed time exceeds T, and a Submitted status seen
\* when the elapsed time exceeds T raises it.
C7_RequestTimeoutIsTheBudget ==
    [][ (pc = "loop" /\ Has(payload.timeoutMs) /\ Val(payload.timeoutMs) > 0)
        => /\ outcome' = "timeout" => elapsed > Val(payload.timeoutMs)
           /\ (WellFormed(task) /\ task.status = "Submitted"
                 /\ elapsed > Val(payload.timeoutMs))
                => outcome' = "timeout" ]_vars

\* the caller's PDF records that the filename hint (when given) selects
HintedRecords(reg, uid, hint) ==
    {r \in reg : /\ r.user = uid /\ r.pdf
                 /\ Has(hint) => (r.filename = Val(hint)
                                  \/ PathMatches(r.filepath, Val(hint)))}

\* the records of S with the greatest last-updated timestamp
Newest(S) == {r \in S : \A q \in S : q.updatedAt <= r.updatedAt}

\* C8 (as claimed): the source taken from the registry is the stored location
\* of one of the newest records among the caller's PDFs that match the hint.
C8_NewestHintedRecord ==
    [][ (pc = "gotFiles" /\ payload'.fileUrl # payload.fileUrl)
        => \E r \in Newest(HintedRecords(registry, Val(userId), payload.filename)) :
              payload'.fileUrl = r.filepath ]_vars

\* C8 (amended): the registry lookup picks one of the newest records among the
\* caller's PDFs that, in revision A, match the filename hint when one is given
\* and, in revision B, have a stored location (the hint plays no part there).
\* If the picked record has a stored location, the source becomes that
\* location, or in revision B possibly a freshly signed URL of the same
\* record; if it has none, or no record is selected, the request is unchanged.
C8_NewestSelectedRecord ==
    [][ pc = "gotFiles"
        => LET S == IF rev = "A"
                    THEN HintedRecords(registry, Val(userId), payload.filename)
                    ELSE {r \in HintedRecords(registry, Val(userId), <<>>) :
                             Has(r.filepath)}
           IN  IF S = {}
               THEN payload' = payload
               ELSE \E r \in Newest(S) :
                      IF Has(r.filepath)
                      THEN /\ \/ payload'.fileUrl = r.filepath
                              \/ /\ rev = "B"
                                 /\ payload'.fileUrl =
                                      <<SignedUrl(ObjectKey(r.filepath, Val(userId),
                                                            r.filename))>>
                           /\ payload'.filename =
                                IF Has(payload.filename) THEN payload.filename
                                ELSE <<r.filename>>
                      ELSE payload' = payload ]_vars

\* C8 witness: two selected records of different age, and the newer one's
\* stored location has become the source
C8_Witness ==
    /\ pc = "validate" /\ Len(files) = 2
    /\ files[1].updatedAt > files[2].updatedAt
    /\ Has(files[1].filepath) /\ Has(files[2].filepath)
    /\ files[1].filepath # files[2].filepath
    /\ payload.fileUrl = files[1].filepath

\* C9: a job is submitted at most once, and every status query comes after the
\* submission was answered and parsed.
C9_OneSubmission ==
    /\ nSubmit <= 1
    /\ nQuery >= 1 => (nSubmit = 1 /\ started)
    /\ pc \in {"loop", "sleep", "query", "completed"} => nSubmit = 1

\* C9 witness: one submission, several status queries, then the timeout
C9_Witness ==
    /\ pc = "done" /\ outcome = "timeout" /\ nSubmit = 1 /\ nQuery >= 2

\* C10 (as claimed): a success follows a Completed answer with a result
\* reference and returns that reference; and an invocation whose last answer
\* was Completed without a result reference has ended with the timeout error.
C10_SuccessOnlyOnResult ==
    /\ outcome = "success" =>
          /\ task = response
          /\ task.status = "Completed" /\ HasResult(task)
          /\ Has(result) /\ Val(result).ref = task.res
    /\ ( /\ pc = "done" /\ started /\ outcome # "http_error"
         /\ response.task /\ response.id
         /\ response.status = "Completed" /\ ~HasResult(response) )
       => outcome = "timeout"

====
